---- MODULE Spec2Model ----
(***************************************************************************)
(* Model of the dev-server project engine of ldcli                         *)
(* (internal/dev_server/model/project.go): CreateProject, CloneProject,    *)
(* UpdateProject, refreshExternalState and override layering, run against  *)
(* a persistent store, the two remote adapters and the observer registry.  *)
(***************************************************************************)
EXTENDS Integers, Sequences, FiniteSets, TLC

VARIABLES
    projects,   \* store: project key -> Project (the rows of the projects table)
    overrides,  \* store: set of Override rows, one per (ProjectKey, FlagKey)
    now,        \* the clock read by time.Now()
    upd,        \* per flow: the UpdateProject call in flight
    active,     \* the request flows that may run UpdateProject
    ret,        \* the last handler call that returned: arguments and results
    lastEvent,  \* per project key: the flag state of the last SyncEvent the observers handled
    observers   \* the observer registry: the registered observers, in registration order

vars == <<projects, overrides, now, upd, active, ret, lastEvent, observers>>

----------------------------------------------------------------------------
(* Bounds and input domains *)

MaxTime == 2
MaxOverrideVersion == 2

Keys == {"a", "b", "c"}
CreateKeys == {"a"}
UpdateKeys == {"a", "b"}
CloneTargets == {"b", "c"}
Envs == {"env1", "env2"}
Flags == {"f1", "f2"}
UpsertFlags == {"f1"}
FlagOrder == <<"f1", "f2">>
Procs == {1, 2}
ObserverIds == <<"o1", "o2">>

Nil == <<>>
Some(x) == <<x>>

ZeroContext == [kind |-> "", key |-> ""]
DefaultContext == [kind |-> "user", key |-> "dev-environment"]
OtherContext == [kind |-> "user", key |-> "ctx1"]
ContextArgs == {Nil, Some(OtherContext)}
EnvArgs == {Nil} \cup {Some(e) : e \in Envs}

----------------------------------------------------------------------------
(* Errors: a kind that errors.As can recover, and the message chain,       *)
(* outermost wrapper first.                                                 *)

NoError == [kind |-> "nil", msgs |-> <<>>]
NewError(kind, text) == [kind |-> kind, msgs |-> <<<<text, "">>>>]
(* Faulty variant: the message is kept, the wrapped error's type is lost. *)
WrapfLosingKind(err, format, arg) == [kind |-> "plain", msgs |-> <<<<format, arg>>>> \o err.msgs]

Wrapf(err, format, arg) == [kind |-> err.kind, msgs |-> <<<<format, arg>>>> \o err.msgs]
As(err, kind) == err.kind = kind
NewErrNotFound(key) == [kind |-> "NotFound", msgs |-> <<<<"project not found", key>>>>]
NewErrAlreadyExists(key) == [kind |-> "AlreadyExists", msgs |-> <<<<"project already exists", key>>>>]

ErrSdkKey == NewError("remote", "GetSdkKey fails")
ErrAllFlagsState == NewError("remote", "GetAllFlagsState fails")
ErrAllFlags == NewError("remote", "GetAllFlags fails")
ErrStore == NewError("store", "store fails")
ErrNotUpdated == NewError("plain", "Project not updated")

----------------------------------------------------------------------------
(* Project *)

EmptyFlagsState == <<>>

EmptyProject ==
    [Key |-> "", SourceEnvironmentKey |-> "", SourceProjectKey |-> "",
     Context |-> ZeroContext, LastSyncTime |-> 0,
     AllFlagsState |-> EmptyFlagsState, AvailableVariations |-> <<>>]

(* Faulty variant: the SourceProjectKey is ignored. *)
GetCloudProjectKeyAlwaysKey(p) == p.Key

GetCloudProjectKey(p) ==
    IF p.SourceProjectKey # "" THEN p.SourceProjectKey ELSE p.Key

----------------------------------------------------------------------------
(* Remote adapters.  What the remote side answers is an input of each call: *)
(* r.sdk and r.fl tell whether GetSdkKey and GetAllFlags succeed, r.st is   *)
(* 0 when GetAllFlagsState fails and otherwise picks the state it returns.  *)

SdkStates ==
    << [f \in {"f1"} |-> [Value |-> FALSE, Version |-> 1, Variation |-> 1]],
       [f \in {"f1", "f2"} |->
           IF f = "f1" THEN [Value |-> TRUE, Version |-> 2, Variation |-> 0]
                       ELSE [Value |-> FALSE, Version |-> 1, Variation |-> 1]] >>

RemoteOutcomes ==
    {[sdk |-> FALSE, st |-> 0, fl |-> FALSE], [sdk |-> TRUE, st |-> 0, fl |-> FALSE]}
    \cup {[sdk |-> TRUE, st |-> s, fl |-> f] : s \in 1..Len(SdkStates), f \in BOOLEAN}

NoSdkKey == [project |-> "", env |-> ""]
SdkKeyOf(cloudKey, env) == [project |-> cloudKey, env |-> env]

Catalog(cloudKey) ==
    << [Key |-> "f1",
        Variations |-> << [Id |-> "true", Name |-> cloudKey, Description |-> "", Value |-> TRUE],
                          [Id |-> "false", Name |-> cloudKey, Description |-> "", Value |-> FALSE] >>],
       [Key |-> "f2",
        Variations |-> << [Id |-> "only", Name |-> cloudKey, Description |-> "", Value |-> FALSE] >>] >>

Call(fn, cloudKey, env, context, sdkKey) ==
    [fn |-> fn, project |-> cloudKey, env |-> env, context |-> context, sdkKey |-> sdkKey]

FromAllFlags(sdkFlags) ==
    [f \in DOMAIN sdkFlags |-> [Value |-> sdkFlags[f].Value, Version |-> sdkFlags[f].Version]]

RECURSIVE FlagVariationsOf(_, _)
FlagVariationsOf(flagKey, variations) ==
    IF variations = <<>> THEN <<>>
    ELSE << [FlagKey |-> flagKey,
             Variation |-> [Id |-> Head(variations).Id,
                            Description |-> Head(variations).Description,
                            Name |-> Head(variations).Name,
                            Value |-> Head(variations).Value]] >>
         \o FlagVariationsOf(flagKey, Tail(variations))

RECURSIVE AllVariationsOf(_)
AllVariationsOf(flags) ==
    IF flags = <<>> THEN <<>>
    ELSE FlagVariationsOf(Head(flags).Key, Head(flags).Variations) \o AllVariationsOf(Tail(flags))

fetchAvailableVariations(project, r) ==
    LET call == Call("GetAllFlags", GetCloudProjectKey(project), "", ZeroContext, NoSdkKey)
    IN  IF ~r.fl
        THEN [variations |-> <<>>, err |-> ErrAllFlags, calls |-> <<call>>]
        ELSE [variations |-> AllVariationsOf(Catalog(GetCloudProjectKey(project))),
              err |-> NoError, calls |-> <<call>>]

(* Faulty variant: the SDK key is asked for the project's own Key. *)
fetchFlagStateOfLocalKey(project, r) ==
    LET cloudKey == project.Key
        sdkKey == SdkKeyOf(cloudKey, project.SourceEnvironmentKey)
        c1 == Call("GetSdkKey", cloudKey, project.SourceEnvironmentKey, ZeroContext, NoSdkKey)
        c2 == Call("GetAllFlagsState", "", "", project.Context, sdkKey)
    IN  IF ~r.sdk
        THEN [state |-> EmptyFlagsState, err |-> ErrSdkKey, calls |-> <<c1>>]
        ELSE IF r.st = 0
        THEN [state |-> EmptyFlagsState, err |-> ErrAllFlagsState, calls |-> <<c1, c2>>]
        ELSE [state |-> FromAllFlags(SdkStates[r.st]), err |-> NoError, calls |-> <<c1, c2>>]

fetchFlagState(project, r) ==
    LET cloudKey == GetCloudProjectKey(project)
        sdkKey == SdkKeyOf(cloudKey, project.SourceEnvironmentKey)
        c1 == Call("GetSdkKey", cloudKey, project.SourceEnvironmentKey, ZeroContext, NoSdkKey)
        c2 == Call("GetAllFlagsState", "", "", project.Context, sdkKey)
    IN  IF ~r.sdk
        THEN [state |-> EmptyFlagsState, err |-> ErrSdkKey, calls |-> <<c1>>]
        ELSE IF r.st = 0
        THEN [state |-> EmptyFlagsState, err |-> ErrAllFlagsState, calls |-> <<c1, c2>>]
        ELSE [state |-> FromAllFlags(SdkStates[r.st]), err |-> NoError, calls |-> <<c1, c2>>]

(* The refresh works on the caller's Project value; on a failure of the     *)
(* second fetch that value already carries the new state and sync time.     *)
refreshExternalState(project, t, r) ==
    LET fs == fetchFlagState(project, r)
        p1 == [project EXCEPT !.AllFlagsState = fs.state, !.LastSyncTime = t]
        av == fetchAvailableVariations(p1, r)
    IN  IF fs.err # NoError
        THEN [project |-> project, err |-> fs.err, calls |-> fs.calls, reads |-> 0]
        ELSE IF av.err # NoError
        THEN [project |-> p1, err |-> av.err, calls |-> fs.calls \o av.calls, reads |-> 1]
        ELSE [project |-> [p1 EXCEPT !.AvailableVariations = av.variations],
              err |-> NoError, calls |-> fs.calls \o av.calls, reads |-> 1]

----------------------------------------------------------------------------
(* Persistent store.  Every call may fail with a store error (fail = TRUE). *)

StoreGetDevProject(ps, key, fail) ==
    IF fail THEN [project |-> EmptyProject, err |-> ErrStore]
    ELSE IF key \in DOMAIN ps THEN [project |-> ps[key], err |-> NoError]
    ELSE [project |-> EmptyProject, err |-> NewErrNotFound(key)]

StoreInsertProject(ps, p, fail) ==
    IF fail THEN [projects |-> ps, err |-> ErrStore]
    ELSE IF p.Key \in DOMAIN ps THEN [projects |-> ps, err |-> NewErrAlreadyExists(p.Key)]
    ELSE [projects |-> [k \in DOMAIN ps \cup {p.Key} |-> IF k = p.Key THEN p ELSE ps[k]],
          err |-> NoError]

StoreUpdateProject(ps, p, fail) ==
    IF fail THEN [projects |-> ps, changed |-> FALSE, err |-> ErrStore]
    ELSE IF p.Key \in DOMAIN ps
    THEN [projects |-> [ps EXCEPT ![p.Key] = p], changed |-> TRUE, err |-> NoError]
    ELSE [projects |-> ps, changed |-> FALSE, err |-> NoError]

StoreDeleteProject(ps, key) == [k \in DOMAIN ps \ {key} |-> ps[k]]

OverrideAt(ovs, key, flagKey) ==
    CHOOSE o \in ovs : o.ProjectKey = key /\ o.FlagKey = flagKey

HasOverride(ovs, key, flagKey) ==
    \E o \in ovs : o.ProjectKey = key /\ o.FlagKey = flagKey

StoreGetOverridesForProject(ovs, key, fail) ==
    LET fl == SelectSeq(FlagOrder, LAMBDA f : HasOverride(ovs, key, f))
    IN  IF fail THEN [overrides |-> <<>>, err |-> ErrStore]
        ELSE [overrides |-> [i \in 1..Len(fl) |-> OverrideAt(ovs, key, fl[i])], err |-> NoError]

StoreUpsertOverride(ovs, o, fail) ==
    LET stored == IF HasOverride(ovs, o.ProjectKey, o.FlagKey)
                  THEN [o EXCEPT !.Version = OverrideAt(ovs, o.ProjectKey, o.FlagKey).Version + 1]
                  ELSE [o EXCEPT !.Version = 1]
    IN  IF fail THEN [overrides |-> ovs, err |-> ErrStore]
        ELSE [overrides |->
                  {x \in ovs : ~(x.ProjectKey = o.ProjectKey /\ x.FlagKey = o.FlagKey)}
                  \cup {stored},
              err |-> NoError]

----------------------------------------------------------------------------
(* Override layering *)

NewOverride(projectKey, flagKey, value, isActive) ==
    [ProjectKey |-> projectKey, FlagKey |-> flagKey, Value |-> value,
     Active |-> isActive, Version |-> 0]

GetFlag(os, flagKey) ==
    LET hits == SelectSeq(os, LAMBDA o : o.FlagKey = flagKey)
    IN  IF hits = <<>> THEN [ok |-> FALSE, override |-> NewOverride("", "", FALSE, FALSE)]
        ELSE [ok |-> TRUE, override |-> Head(hits)]

Apply(override, state) ==
    IF override.Active
    THEN [Value |-> override.Value, Version |-> state.Version + 1]
    ELSE state

(* Faulty variant: the mapping is built over the override rows as well as  *)
(* the synced flags.                                                        *)
GetFlagStateOverOverrides(project, ovs, fail) ==
    LET got == StoreGetOverridesForProject(ovs, project.Key, fail)
        overridden == {got.overrides[i].FlagKey : i \in 1..Len(got.overrides)}
        withOverrides ==
            [flagKey \in DOMAIN project.AllFlagsState \cup overridden |->
                IF flagKey \notin DOMAIN project.AllFlagsState
                THEN Apply(GetFlag(got.overrides, flagKey).override,
                           [Value |-> FALSE, Version |-> 0])
                ELSE IF GetFlag(got.overrides, flagKey).ok
                THEN Apply(GetFlag(got.overrides, flagKey).override, project.AllFlagsState[flagKey])
                ELSE project.AllFlagsState[flagKey]]
    IN  IF got.err # NoError
        THEN [state |-> EmptyFlagsState, project |-> project,
              err |-> Wrapf(got.err, "unable to fetch overrides for project", project.Key)]
        ELSE [state |-> withOverrides, project |-> project, err |-> NoError]

(* Faulty variant: the applied state is dropped, the synced one is stored. *)
GetFlagStateDropsApplied(project, ovs, fail) ==
    LET got == StoreGetOverridesForProject(ovs, project.Key, fail)
    IN  IF got.err # NoError
        THEN [state |-> EmptyFlagsState, project |-> project,
              err |-> Wrapf(got.err, "unable to fetch overrides for project", project.Key)]
        ELSE [state |-> project.AllFlagsState, project |-> project, err |-> NoError]

(* Faulty variant: a found override replaces the value without Apply. *)
GetFlagStateWithoutApply(project, ovs, fail) ==
    LET got == StoreGetOverridesForProject(ovs, project.Key, fail)
        withOverrides ==
            [flagKey \in DOMAIN project.AllFlagsState |->
                IF GetFlag(got.overrides, flagKey).ok
                THEN [Value |-> GetFlag(got.overrides, flagKey).override.Value,
                      Version |-> project.AllFlagsState[flagKey].Version + 1]
                ELSE project.AllFlagsState[flagKey]]
    IN  IF got.err # NoError
        THEN [state |-> EmptyFlagsState, project |-> project,
              err |-> Wrapf(got.err, "unable to fetch overrides for project", project.Key)]
        ELSE [state |-> withOverrides, project |-> project, err |-> NoError]

(* Faulty variant: the layered entries are written into the project's own map. *)
GetFlagStateInPlace(project, ovs, fail) ==
    LET got == StoreGetOverridesForProject(ovs, project.Key, fail)
        withOverrides ==
            [flagKey \in DOMAIN project.AllFlagsState |->
                IF GetFlag(got.overrides, flagKey).ok
                THEN Apply(GetFlag(got.overrides, flagKey).override, project.AllFlagsState[flagKey])
                ELSE project.AllFlagsState[flagKey]]
    IN  IF got.err # NoError
        THEN [state |-> EmptyFlagsState, project |-> project,
              err |-> Wrapf(got.err, "unable to fetch overrides for project", project.Key)]
        ELSE [state |-> withOverrides,
              project |-> [project EXCEPT !.AllFlagsState = withOverrides], err |-> NoError]

(* The receiver is a copy of the Project; project is that copy after the call. *)
GetFlagStateWithOverridesForProject(project, ovs, fail) ==
    LET got == StoreGetOverridesForProject(ovs, project.Key, fail)
        withOverrides ==
            [flagKey \in DOMAIN project.AllFlagsState |->
                IF GetFlag(got.overrides, flagKey).ok
                THEN Apply(GetFlag(got.overrides, flagKey).override, project.AllFlagsState[flagKey])
                ELSE project.AllFlagsState[flagKey]]
    IN  IF got.err # NoError
        THEN [state |-> EmptyFlagsState, project |-> project,
              err |-> Wrapf(got.err, "unable to fetch overrides for project", project.Key)]
        ELSE [state |-> withOverrides, project |-> project, err |-> NoError]

----------------------------------------------------------------------------
(* Observer registry *)

SyncEvent(projectKey, allFlagsState) ==
    [ProjectKey |-> projectKey, AllFlagsState |-> allFlagsState]

(* A registered observer and what its handler does with an event. *)
Handlers == {"returns", "fails", "panics"}

NewObserver(id, handler) == [id |-> id, handler |-> handler]

RECURSIVE RegisterObservers(_, _)
RegisterObservers(ids, handlers) ==
    IF ids = <<>> THEN <<>>
    ELSE <<NewObserver(Head(ids), Head(handlers))>> \o RegisterObservers(Tail(ids), Tail(handlers))

(* Notify hands the event to every observer in registration order; each     *)
(* invocation is isolated, so what one handler does stops no later one.     *)
Notify(obs, event) ==
    [i \in 1..Len(obs) |->
        [observer |-> obs[i].id, event |-> event, outcome |-> obs[i].handler]]

----------------------------------------------------------------------------
(* The engine's operations, as functions of the store they run against.    *)
(* t is the clock's value, r the remote side's answers, sf the number of    *)
(* the operation's store call that fails (0: none).  reads counts the       *)
(* clock reads, inserts and upserts the store writes attempted, gets the    *)
(* calls of GetOverridesForProject.                                         *)

(* Faulty variant: a missing context is left at its zero value. *)
CreateProjectWithoutDefaultContext(ps, projectKey, sourceEnvironmentKey, ldCtx, t, r, sf) ==
    LET project == [EmptyProject EXCEPT
                       !.Key = projectKey,
                       !.SourceEnvironmentKey = sourceEnvironmentKey,
                       !.Context = IF ldCtx = Nil THEN ZeroContext ELSE ldCtx[1]]
        rf == refreshExternalState(project, t, r)
        ins == StoreInsertProject(ps, rf.project, sf = 1)
    IN  IF rf.err # NoError
        THEN [project |-> EmptyProject, err |-> rf.err, projects |-> ps,
              calls |-> rf.calls, reads |-> rf.reads, inserts |-> 0]
        ELSE IF ins.err # NoError
        THEN [project |-> EmptyProject, err |-> ins.err, projects |-> ps,
              calls |-> rf.calls, reads |-> rf.reads, inserts |-> 1]
        ELSE [project |-> rf.project, err |-> NoError, projects |-> ins.projects,
              calls |-> rf.calls, reads |-> rf.reads, inserts |-> 1]

(* Faulty variant: the project is inserted whatever the refresh returned. *)
CreateProjectIgnoringRefreshError(ps, projectKey, sourceEnvironmentKey, ldCtx, t, r, sf) ==
    LET project == [EmptyProject EXCEPT
                       !.Key = projectKey,
                       !.SourceEnvironmentKey = sourceEnvironmentKey,
                       !.Context = IF ldCtx = Nil THEN DefaultContext ELSE ldCtx[1]]
        rf == refreshExternalState(project, t, r)
        ins == StoreInsertProject(ps, rf.project, sf = 1)
    IN  IF ins.err # NoError
        THEN [project |-> EmptyProject, err |-> ins.err, projects |-> ps,
              calls |-> rf.calls, reads |-> rf.reads, inserts |-> 1]
        ELSE [project |-> IF rf.err # NoError THEN EmptyProject ELSE rf.project,
              err |-> rf.err, projects |-> ins.projects,
              calls |-> rf.calls, reads |-> rf.reads, inserts |-> 1]

CreateProject(ps, projectKey, sourceEnvironmentKey, ldCtx, t, r, sf) ==
    LET project == [EmptyProject EXCEPT
                       !.Key = projectKey,
                       !.SourceEnvironmentKey = sourceEnvironmentKey,
                       !.Context = IF ldCtx = Nil THEN DefaultContext ELSE ldCtx[1]]
        rf == refreshExternalState(project, t, r)
        ins == StoreInsertProject(ps, rf.project, sf = 1)
    IN  IF rf.err # NoError
        THEN [project |-> EmptyProject, err |-> rf.err, projects |-> ps,
              calls |-> rf.calls, reads |-> rf.reads, inserts |-> 0]
        ELSE IF ins.err # NoError
        THEN [project |-> EmptyProject, err |-> ins.err, projects |-> ps,
              calls |-> rf.calls, reads |-> rf.reads, inserts |-> 1]
        ELSE [project |-> rf.project, err |-> NoError, projects |-> ins.projects,
              calls |-> rf.calls, reads |-> rf.reads, inserts |-> 1]

(* Faulty variant: the clone starts with no flag state. *)
ClonedProjectWithoutFlagsState(sourceProject, targetKey, t) ==
    [Key |-> targetKey,
     SourceEnvironmentKey |-> sourceProject.SourceEnvironmentKey,
     SourceProjectKey |-> IF sourceProject.SourceProjectKey # ""
                          THEN sourceProject.SourceProjectKey ELSE sourceProject.Key,
     Context |-> sourceProject.Context,
     LastSyncTime |-> t,
     AllFlagsState |-> EmptyFlagsState,
     AvailableVariations |-> sourceProject.AvailableVariations]

(* Faulty variant: the clone points at the project it was copied from. *)
ClonedProjectOfSourceKey(sourceProject, targetKey, t) ==
    [Key |-> targetKey,
     SourceEnvironmentKey |-> sourceProject.SourceEnvironmentKey,
     SourceProjectKey |-> sourceProject.Key,
     Context |-> sourceProject.Context,
     LastSyncTime |-> t,
     AllFlagsState |-> sourceProject.AllFlagsState,
     AvailableVariations |-> sourceProject.AvailableVariations]

ClonedProject(sourceProject, targetKey, t) ==
    [Key |-> targetKey,
     SourceEnvironmentKey |-> sourceProject.SourceEnvironmentKey,
     SourceProjectKey |-> GetCloudProjectKey(sourceProject),
     Context |-> sourceProject.Context,
     LastSyncTime |-> t,
     AllFlagsState |-> sourceProject.AllFlagsState,
     AvailableVariations |-> sourceProject.AvailableVariations]

(* Faulty variant: only the active overrides are copied. *)
RECURSIVE CloneOverridesOnlyActive(_, _, _, _, _)
CloneOverridesOnlyActive(ovs, sourceOverrides, targetKey, k, failAt) ==
    IF k > Len(sourceOverrides)
    THEN [overrides |-> ovs, err |-> NoError, upserts |-> k - 1]
    ELSE LET override == sourceOverrides[k]
             up == StoreUpsertOverride(ovs,
                       NewOverride(targetKey, override.FlagKey, override.Value, override.Active),
                       k = failAt)
         IN  IF ~override.Active
             THEN CloneOverridesOnlyActive(ovs, sourceOverrides, targetKey, k + 1, failAt)
             ELSE IF up.err # NoError
             THEN [overrides |-> ovs,
                   err |-> Wrapf(up.err, "unable to clone override for flag", override.FlagKey),
                   upserts |-> k]
             ELSE CloneOverridesOnlyActive(up.overrides, sourceOverrides, targetKey, k + 1, failAt)

(* Faulty variant: a failed copy removes the overrides copied before it. *)
RECURSIVE CloneOverridesRollingBack(_, _, _, _, _)
CloneOverridesRollingBack(ovs, sourceOverrides, targetKey, k, failAt) ==
    IF k > Len(sourceOverrides)
    THEN [overrides |-> ovs, err |-> NoError, upserts |-> k - 1]
    ELSE LET override == sourceOverrides[k]
             up == StoreUpsertOverride(ovs,
                       NewOverride(targetKey, override.FlagKey, override.Value, override.Active),
                       k = failAt)
         IN  IF up.err # NoError
             THEN [overrides |-> {o \in ovs : o.ProjectKey # targetKey},
                   err |-> Wrapf(up.err, "unable to clone override for flag", override.FlagKey),
                   upserts |-> k]
             ELSE CloneOverridesRollingBack(up.overrides, sourceOverrides, targetKey, k + 1, failAt)

RECURSIVE CloneOverrides(_, _, _, _, _)
CloneOverrides(ovs, sourceOverrides, targetKey, k, failAt) ==
    IF k > Len(sourceOverrides)
    THEN [overrides |-> ovs, err |-> NoError, upserts |-> k - 1]
    ELSE LET override == sourceOverrides[k]
             up == StoreUpsertOverride(ovs,
                       NewOverride(targetKey, override.FlagKey, override.Value, override.Active),
                       k = failAt)
         IN  IF up.err # NoError
             THEN [overrides |-> ovs,
                   err |-> Wrapf(up.err, "unable to clone override for flag", override.FlagKey),
                   upserts |-> k]
             ELSE CloneOverrides(up.overrides, sourceOverrides, targetKey, k + 1, failAt)

(* Faulty variant: the overrides are copied although the insert failed. *)
CloneProjectIgnoringInsertError(ps, ovs, sourceKey, targetKey, includeOverrides, t, sf) ==
    LET get == StoreGetDevProject(ps, sourceKey, sf = 1)
        clonedProject == ClonedProject(get.project, targetKey, t)
        ins == StoreInsertProject(ps, clonedProject, sf = 2)
        got == StoreGetOverridesForProject(ovs, sourceKey, sf = 3)
        copy == CloneOverrides(ovs, got.overrides, targetKey, 1, sf - 3)
        insErr == IF ins.err # NoError
                  THEN Wrapf(ins.err, "unable to insert cloned project", targetKey)
                  ELSE NoError
        failed(err, newPs, newOvs, rd, nIns, nGets, nUps) ==
            [project |-> EmptyProject, err |-> err, projects |-> newPs, overrides |-> newOvs,
             calls |-> <<>>, reads |-> rd, inserts |-> nIns, gets |-> nGets, upserts |-> nUps]
    IN  IF get.err # NoError
        THEN failed(Wrapf(get.err, "unable to get source project", sourceKey), ps, ovs, 0, 0, 0, 0)
        ELSE IF ~includeOverrides
        THEN [project |-> IF insErr = NoError THEN clonedProject ELSE EmptyProject,
              err |-> insErr, projects |-> ins.projects,
              overrides |-> ovs, calls |-> <<>>, reads |-> 1, inserts |-> 1, gets |-> 0,
              upserts |-> 0]
        ELSE IF got.err # NoError
        THEN failed(Wrapf(got.err, "unable to get overrides for source project", sourceKey),
                    ins.projects, ovs, 1, 1, 1, 0)
        ELSE IF copy.err # NoError
        THEN failed(copy.err, ins.projects, copy.overrides, 1, 1, 1, copy.upserts)
        ELSE [project |-> IF insErr = NoError THEN clonedProject ELSE EmptyProject,
              err |-> insErr, projects |-> ins.projects,
              overrides |-> copy.overrides, calls |-> <<>>, reads |-> 1, inserts |-> 1,
              gets |-> 1, upserts |-> copy.upserts]

CloneProject(ps, ovs, sourceKey, targetKey, includeOverrides, t, sf) ==
    LET get == StoreGetDevProject(ps, sourceKey, sf = 1)
        clonedProject == ClonedProject(get.project, targetKey, t)
        ins == StoreInsertProject(ps, clonedProject, sf = 2)
        got == StoreGetOverridesForProject(ovs, sourceKey, sf = 3)
        copy == CloneOverrides(ovs, got.overrides, targetKey, 1, sf - 3)
        failed(err, newPs, newOvs, rd, nIns, nGets, nUps) ==
            [project |-> EmptyProject, err |-> err, projects |-> newPs, overrides |-> newOvs,
             calls |-> <<>>, reads |-> rd, inserts |-> nIns, gets |-> nGets, upserts |-> nUps]
    IN  IF get.err # NoError
        THEN failed(Wrapf(get.err, "unable to get source project", sourceKey), ps, ovs, 0, 0, 0, 0)
        ELSE IF ins.err # NoError
        THEN failed(Wrapf(ins.err, "unable to insert cloned project", targetKey), ps, ovs, 1, 1, 0, 0)
        ELSE IF ~includeOverrides
        THEN [project |-> clonedProject, err |-> NoError, projects |-> ins.projects,
              overrides |-> ovs, calls |-> <<>>, reads |-> 1, inserts |-> 1, gets |-> 0,
              upserts |-> 0]
        ELSE IF got.err # NoError
        THEN failed(Wrapf(got.err, "unable to get overrides for source project", sourceKey),
                    ins.projects, ovs, 1, 1, 1, 0)
        ELSE IF copy.err # NoError
        THEN failed(copy.err, ins.projects, copy.overrides, 1, 1, 1, copy.upserts)
        ELSE [project |-> clonedProject, err |-> NoError, projects |-> ins.projects,
              overrides |-> copy.overrides, calls |-> <<>>, reads |-> 1, inserts |-> 1,
              gets |-> 1, upserts |-> copy.upserts]

(* Faulty variant: the changed arguments are stored before the refresh. *)
UpdateProjectLoadStoresFirst(ps, projectKey, context, sourceEnvironmentKey, t, r, fail) ==
    LET get == StoreGetDevProject(ps, projectKey, fail)
        p1 == IF context # Nil THEN [get.project EXCEPT !.Context = context[1]] ELSE get.project
        p2 == IF sourceEnvironmentKey # Nil
              THEN [p1 EXCEPT !.SourceEnvironmentKey = sourceEnvironmentKey[1]] ELSE p1
        rf == refreshExternalState(p2, t, r)
    IN  IF get.err # NoError
        THEN [project |-> EmptyProject, err |-> get.err, projects |-> ps,
              calls |-> <<>>, reads |-> 0]
        ELSE [project |-> rf.project, err |-> rf.err,
              projects |-> StoreUpdateProject(ps, rf.project, FALSE).projects,
              calls |-> rf.calls, reads |-> rf.reads]

(* UpdateProject, lines 126-142: load, apply the arguments, refresh.  The   *)
(* store hands out a copy of the row; projects is the store afterwards.     *)
UpdateProjectLoad(ps, projectKey, context, sourceEnvironmentKey, t, r, fail) ==
    LET get == StoreGetDevProject(ps, projectKey, fail)
        p1 == IF context # Nil THEN [get.project EXCEPT !.Context = context[1]] ELSE get.project
        p2 == IF sourceEnvironmentKey # Nil
              THEN [p1 EXCEPT !.SourceEnvironmentKey = sourceEnvironmentKey[1]] ELSE p1
        rf == refreshExternalState(p2, t, r)
    IN  IF get.err # NoError
        THEN [project |-> EmptyProject, err |-> get.err, projects |-> ps,
              calls |-> <<>>, reads |-> 0]
        ELSE [project |-> rf.project, err |-> rf.err, projects |-> ps,
              calls |-> rf.calls, reads |-> rf.reads]

(* Faulty variant: a project the update did not find is inserted again. *)
UpdateProjectStoreInsertsWhenUnchanged(ps, project, fail) ==
    LET up == StoreUpdateProject(ps, project, fail)
    IN  IF up.err # NoError
        THEN [projects |-> up.projects, changed |-> up.changed, err |-> up.err]
        ELSE IF ~up.changed
        THEN [projects |-> StoreInsertProject(ps, project, FALSE).projects,
              changed |-> TRUE, err |-> NoError]
        ELSE [projects |-> up.projects, changed |-> TRUE, err |-> NoError]

(* Faulty variant: the changed flag is not looked at. *)
UpdateProjectStoreIgnoringChanged(ps, project, fail) ==
    LET up == StoreUpdateProject(ps, project, fail)
    IN  [projects |-> up.projects, changed |-> up.changed, err |-> up.err]

(* UpdateProject, lines 144-150: the conditional update and its changed flag. *)
UpdateProjectStore(ps, project, fail) ==
    LET up == StoreUpdateProject(ps, project, fail)
    IN  IF up.err # NoError
        THEN [projects |-> up.projects, changed |-> up.changed, err |-> up.err]
        ELSE IF ~up.changed
        THEN [projects |-> up.projects, changed |-> FALSE, err |-> ErrNotUpdated]
        ELSE [projects |-> up.projects, changed |-> TRUE, err |-> NoError]

(* Faulty variant: the event is built but never handed to the registry. *)
UpdateProjectNotifySkipsNotify(project, ovs, obs, projectKey, fail) ==
    LET layered == GetFlagStateWithOverridesForProject(project, ovs, fail)
    IN  IF layered.err # NoError
        THEN [project |-> EmptyProject,
              err |-> Wrapf(layered.err, "unable to get overrides for project,", projectKey),
              events |-> <<>>, deliveries |-> <<>>]
        ELSE [project |-> layered.project, err |-> NoError,
              events |-> <<>>, deliveries |-> <<>>]

(* Faulty variant: the returned project carries the layered state. *)
UpdateProjectNotifyReturnsLayered(project, ovs, obs, projectKey, fail) ==
    LET layered == GetFlagStateWithOverridesForProject(project, ovs, fail)
    IN  IF layered.err # NoError
        THEN [project |-> EmptyProject,
              err |-> Wrapf(layered.err, "unable to get overrides for project,", projectKey),
              events |-> <<>>, deliveries |-> <<>>]
        ELSE [project |-> [layered.project EXCEPT !.AllFlagsState = layered.state],
              err |-> NoError,
              events |-> <<SyncEvent(layered.project.Key, layered.state)>>,
              deliveries |-> Notify(obs, SyncEvent(layered.project.Key, layered.state))]

(* Faulty variant: the observers are notified of the synced state although *)
(* the override fetch failed.                                               *)
UpdateProjectNotifyDespiteFetchError(project, ovs, obs, projectKey, fail) ==
    LET layered == GetFlagStateWithOverridesForProject(project, ovs, fail)
    IN  IF layered.err # NoError
        THEN [project |-> EmptyProject,
              err |-> Wrapf(layered.err, "unable to get overrides for project,", projectKey),
              events |-> <<SyncEvent(project.Key, project.AllFlagsState)>>,
              deliveries |-> Notify(obs, SyncEvent(project.Key, project.AllFlagsState))]
        ELSE [project |-> layered.project, err |-> NoError,
              events |-> <<SyncEvent(layered.project.Key, layered.state)>>,
              deliveries |-> Notify(obs, SyncEvent(layered.project.Key, layered.state))]

(* UpdateProject, lines 152-161: layer the overrides, notify, return. *)
UpdateProjectNotify(project, ovs, obs, projectKey, fail) ==
    LET layered == GetFlagStateWithOverridesForProject(project, ovs, fail)
    IN  IF layered.err # NoError
        THEN [project |-> EmptyProject,
              err |-> Wrapf(layered.err, "unable to get overrides for project,", projectKey),
              events |-> <<>>, deliveries |-> <<>>]
        ELSE [project |-> layered.project, err |-> NoError,
              events |-> <<SyncEvent(layered.project.Key, layered.state)>>,
              deliveries |-> Notify(obs, SyncEvent(layered.project.Key, layered.state))]

----------------------------------------------------------------------------
(* The request layer: POST /dev/projects/{projectKey}/clone.  sf numbers    *)
(* the store call that fails: 1..5 inside CloneProject, 6 the handler's     *)
(* GetOverridesForProject, 7 its GetAvailableVariationsForProject.          *)

ExpandArgs == {Nil, Some(<<"overrides">>), Some(<<"availableVariations", "overrides">>)}
IncludeArgs == {Nil, Some(TRUE), Some(FALSE)}

StoreGetAvailableVariationsForProject(ps, key, fail) ==
    IF fail THEN [variations |-> <<>>, err |-> ErrStore]
    ELSE IF key \in DOMAIN ps THEN [variations |-> ps[key].AvailableVariations, err |-> NoError]
    ELSE [variations |-> <<>>, err |-> NoError]

availableVariationsToResponseFormat(availableVariations) ==
    LET of(f) == SelectSeq(availableVariations, LAMBDA v : v.FlagKey = f)
    IN  [f \in {availableVariations[i].FlagKey : i \in 1..Len(availableVariations)} |->
            [i \in 1..Len(of(f)) |-> of(f)[i].Variation]]

EmptyBody ==
    [LastSyncedFromSource |-> 0, Context |-> ZeroContext, SourceEnvironmentKey |-> "",
     FlagsState |-> EmptyFlagsState, Overrides |-> Nil, AvailableVariations |-> Nil]

(* Faulty variant: every stored override is put in the response. *)
RespOverridesWithInactive(os) ==
    [f \in {os[i].FlagKey : i \in 1..Len(os)} |->
        LET last == CHOOSE i \in 1..Len(os) :
                        /\ os[i].FlagKey = f
                        /\ \A j \in (i + 1)..Len(os) : os[j].FlagKey # f
        IN  [Value |-> os[last].Value, Version |-> os[last].Version]]

(* Lines 57-66: the active overrides, by flag key; a later one replaces an  *)
(* earlier one for the same flag.                                           *)
RespOverrides(os) ==
    LET act == SelectSeq(os, LAMBDA o : o.Active)
    IN  [f \in {act[i].FlagKey : i \in 1..Len(act)} |->
            LET last == CHOOSE i \in 1..Len(act) :
                            /\ act[i].FlagKey = f
                            /\ \A j \in (i + 1)..Len(act) : act[j].FlagKey # f
            IN  [Value |-> act[last].Value, Version |-> act[last].Version]]

(* Lines 51-77: the loop over the expand items. *)
RECURSIVE ExpandItems(_, _, _, _, _, _)
ExpandItems(response, items, ps, ovs, projectKey, sf) ==
    IF items = <<>> THEN [response |-> response, err |-> NoError]
    ELSE LET item == Head(items)
             got == StoreGetOverridesForProject(ovs, projectKey, sf = 6)
             var == StoreGetAvailableVariationsForProject(ps, projectKey, sf = 7)
             r1 == IF item = "overrides"
                   THEN [response EXCEPT !.Overrides = Some(RespOverrides(got.overrides))]
                   ELSE response
             r2 == IF item = "availableVariations"
                   THEN [r1 EXCEPT !.AvailableVariations =
                                       Some(availableVariationsToResponseFormat(var.variations))]
                   ELSE r1
         IN  IF item = "overrides" /\ got.err # NoError
             THEN [response |-> EmptyBody, err |-> got.err]
             ELSE IF item = "availableVariations" /\ var.err # NoError
             THEN [response |-> EmptyBody, err |-> var.err]
             ELSE ExpandItems(r2, Tail(items), ps, ovs, projectKey, sf)

(* Lines 28-83, with res the result of the CloneProject call of line 27.    *)
(* status 0: the handler returned an error and no response object.          *)
PostCloneProjectAnswer(res, projectKey, expand, sf) ==
    LET response == [EmptyBody EXCEPT
                        !.LastSyncedFromSource = res.project.LastSyncTime,
                        !.Context = res.project.Context,
                        !.SourceEnvironmentKey = res.project.SourceEnvironmentKey,
                        !.FlagsState = res.project.AllFlagsState]
        ex == IF expand # Nil
              THEN ExpandItems(response, expand[1], res.projects, res.overrides, projectKey, sf)
              ELSE [response |-> response, err |-> NoError]
        answer(status, code, message, body, err) ==
            [status |-> status, code |-> code, message |-> message, body |-> body,
             err |-> err, engine |-> 1, cloneErr |-> res.err,
             projects |-> res.projects, overrides |-> res.overrides]
    IN  IF As(res.err, "NotFound")
        THEN answer(404, "not_found", res.err.msgs, EmptyBody, NoError)
        ELSE IF As(res.err, "AlreadyExists")
        THEN answer(409, "conflict", res.err.msgs, EmptyBody, NoError)
        ELSE IF res.err # NoError
        THEN answer(0, "", <<>>, EmptyBody, res.err)
        ELSE IF ex.err # NoError
        THEN answer(0, "", <<>>, EmptyBody, ex.err)
        ELSE answer(201, "", <<>>, ex.response, NoError)

PostCloneProject(ps, ovs, sourceProjectKey, projectKey, include, expand, t, sf) ==
    LET includeOverrides == IF include # Nil THEN include[1] ELSE FALSE
    IN  IF sourceProjectKey = ""
        THEN [status |-> 400, code |-> "invalid_request",
              message |-> <<<<"sourceProjectKey is required", "">>>>, body |-> EmptyBody,
              err |-> NoError, engine |-> 0, cloneErr |-> NoError,
              projects |-> ps, overrides |-> ovs]
        ELSE PostCloneProjectAnswer(
                 CloneProject(ps, ovs, sourceProjectKey, projectKey, includeOverrides, t, sf),
                 projectKey, expand, sf)

----------------------------------------------------------------------------
(* State machine *)

NoRemote == [sdk |-> FALSE, st |-> 0, fl |-> FALSE]

(* ret describes the handler call that returned in the last step. *)
NoRet ==
    [op |-> "none", key |-> "", source |-> "", include |-> FALSE,
     project |-> EmptyProject, err |-> NoError, result |-> "",
     events |-> <<>>, deliveries |-> <<>>, calls |-> <<>>, remote |-> NoRemote,
     changed |-> "none", state |-> EmptyFlagsState,
     inserts |-> 0, upserts |-> 0, again |-> FALSE, gets |-> 0,
     env |-> "", context |-> Nil,
     status |-> 0, body |-> EmptyBody, engine |-> 0, cloneErr |-> NoError, expand |-> Nil]

Idle ==
    [pc |-> "idle", key |-> "", project |-> EmptyProject, calls |-> <<>>,
     remote |-> NoRemote, changed |-> "none"]

(* Input domains of the specifications below: what CreateProject can have *)
(* stored for the given keys at time t, and the override rows the store    *)
(* can hold for one project.                                               *)
CreatedProjects(keys, t) ==
    {res.project :
        res \in {x \in {CreateProject(<<>>, k, e, c, t, r, 0) :
                            k \in keys, e \in Envs, c \in ContextArgs, r \in RemoteOutcomes} :
                     x.err = NoError}}

OverrideRows(projectKey) ==
    {[ProjectKey |-> projectKey, FlagKey |-> f, Value |-> v, Active |-> a, Version |-> n] :
        f \in Flags, v \in BOOLEAN, a \in BOOLEAN, n \in 1..MaxOverrideVersion}

OverrideSets(projectKey) ==
    {{pick[f][1] : f \in {g \in Flags : pick[g] # Nil}} :
        pick \in {q \in [Flags -> {Nil} \cup {Some(o) : o \in OverrideRows(projectKey)}] :
                     \A f \in Flags : q[f] # Nil => q[f][1].FlagKey = f}}

(* The projects the clones start from: two that differ in every field. *)
CloneRoots ==
    {CreateProject(<<>>, "a", "env1", Nil, 1, [sdk |-> TRUE, st |-> 1, fl |-> TRUE], 0).project,
     CreateProject(<<>>, "a", "env2", Some(OtherContext), 1,
                   [sdk |-> TRUE, st |-> 2, fl |-> TRUE], 0).project}

(* Their overrides: per flag none, an active one the store has rewritten,  *)
(* or an inactive one.                                                     *)
CloneOverrideSets ==
    {ovs \in OverrideSets("a") :
        \A o \in ovs : \/ o.Active /\ o.Value /\ o.Version = MaxOverrideVersion
                       \/ ~o.Active /\ ~o.Value /\ o.Version = 1}

InitCommon ==
    /\ upd = [p \in Procs |-> Idle]
    /\ active = {1}
    /\ ret = NoRet
    /\ lastEvent = [k \in Keys |-> Nil]
    /\ observers = RegisterObservers(ObserverIds, <<"returns", "returns">>)

Tick ==
    /\ now < MaxTime
    /\ now' = now + 1
    /\ ret' = NoRet
    /\ UNCHANGED <<projects, overrides, upd, active, lastEvent, observers>>

DoCreateProject ==
    \E projectKey \in CreateKeys, env \in Envs, ldCtx \in ContextArgs,
       r \in RemoteOutcomes, sf \in 0..1 :
        \E res \in {CreateProject(projects, projectKey, env, ldCtx, now, r, sf)} :
            /\ projects' = res.projects
            /\ ret' = [NoRet EXCEPT !.op = "CreateProject", !.key = projectKey,
                                    !.env = env, !.context = ldCtx,
                                    !.project = res.project, !.err = res.err,
                                    !.calls = res.calls, !.remote = r,
                                    !.inserts = res.inserts]
            /\ UNCHANGED <<overrides, now, upd, active, lastEvent, observers>>

DoCloneProject ==
    \E sourceKey \in Keys, targetKey \in CloneTargets, includeOverrides \in BOOLEAN,
       sf \in 0..(3 + Len(FlagOrder)) :
        /\ includeOverrides \/ sf <= 2
        /\ \E res \in {CloneProject(projects, overrides, sourceKey, targetKey,
                                     includeOverrides, now, sf)} :
            /\ projects' = res.projects
            /\ overrides' = res.overrides
            /\ ret' = [NoRet EXCEPT !.op = "CloneProject", !.key = targetKey,
                                    !.source = sourceKey, !.include = includeOverrides,
                                    !.project = res.project, !.err = res.err,
                                    !.calls = res.calls,
                                    !.inserts = res.inserts, !.upserts = res.upserts,
                                    !.gets = res.gets]
            /\ UNCHANGED <<now, upd, active, lastEvent, observers>>

ApiSources == {"", "a", "b", "c"}
ApiTargets == {"b"}

DoPostCloneProject ==
    \E sourceProjectKey \in ApiSources, projectKey \in ApiTargets, include \in IncludeArgs,
       expand \in ExpandArgs, sf \in 0..(5 + 2) :
        \E res \in {PostCloneProject(projects, overrides, sourceProjectKey, projectKey,
                                      include, expand, now, sf)} :
            /\ projects' = res.projects
            /\ overrides' = res.overrides
            /\ ret' = [NoRet EXCEPT !.op = "PostCloneProject", !.key = projectKey,
                                    !.source = sourceProjectKey,
                                    !.include = (include = Some(TRUE)),
                                    !.expand = expand, !.err = res.err,
                                    !.status = res.status, !.body = res.body,
                                    !.engine = res.engine, !.cloneErr = res.cloneErr]
            /\ UNCHANGED <<now, upd, active, lastEvent, observers>>

(* UpdateProject runs in three steps, split at the store calls whose        *)
(* results other flows can change.                                          *)
UpdateStart(p) ==
    \E projectKey \in UpdateKeys, context \in ContextArgs, env \in EnvArgs,
       r \in RemoteOutcomes, fail \in BOOLEAN :
        /\ p \in active
        /\ upd[p].pc = "idle"
        /\ fail => r = NoRemote
        /\ \E res \in {UpdateProjectLoad(projects, projectKey, context, env, now, r, fail)} :
            /\ projects' = res.projects
            /\ IF res.err # NoError
               THEN /\ upd' = upd
                    /\ ret' = [NoRet EXCEPT !.op = "UpdateProject", !.key = projectKey,
                                            !.err = res.err, !.calls = res.calls,
                                            !.remote = r]
               ELSE /\ upd' = [upd EXCEPT ![p] = [pc |-> "update", key |-> projectKey,
                                                  project |-> res.project,
                                                  calls |-> res.calls, remote |-> r,
                                                  changed |-> "none"]]
                    /\ ret' = NoRet
            /\ UNCHANGED <<overrides, now, active, lastEvent, observers>>

UpdateStore(p) ==
    \E fail \in BOOLEAN :
        /\ p \in active
        /\ upd[p].pc = "update"
        /\ \E res \in {UpdateProjectStore(projects, upd[p].project, fail)} :
            /\ projects' = res.projects
            /\ IF res.err # NoError
               THEN /\ upd' = [upd EXCEPT ![p] = Idle]
                    /\ ret' = [NoRet EXCEPT !.op = "UpdateProject", !.key = upd[p].key,
                                            !.err = res.err, !.calls = upd[p].calls,
                                            !.remote = upd[p].remote,
                                            !.changed = IF fail THEN "none" ELSE "false"]
               ELSE /\ upd' = [upd EXCEPT ![p].pc = "notify",
                                          ![p].changed = IF res.changed THEN "true" ELSE "false"]
                    /\ ret' = NoRet
            /\ UNCHANGED <<overrides, now, active, lastEvent, observers>>

UpdateNotify(p) ==
    \E fail \in BOOLEAN :
        /\ p \in active
        /\ upd[p].pc = "notify"
        /\ \E res \in {UpdateProjectNotify(upd[p].project, overrides, observers,
                                            upd[p].key, fail)} :
            /\ upd' = [upd EXCEPT ![p] = Idle]
            /\ ret' = [NoRet EXCEPT !.op = "UpdateProject", !.key = upd[p].key,
                                    !.project = res.project, !.err = res.err,
                                    !.events = res.events, !.deliveries = res.deliveries,
                                    !.calls = upd[p].calls, !.remote = upd[p].remote,
                                    !.changed = upd[p].changed]
            /\ lastEvent' = IF res.events = <<>> THEN lastEvent
                            ELSE [lastEvent EXCEPT ![res.events[1].ProjectKey] =
                                      Some(res.events[1].AllFlagsState)]
            /\ UNCHANGED <<projects, overrides, now, active, observers>>

(* Two request flows that each make one UpdateProject call for project a   *)
(* and keep the call's arguments and result once it has returned.           *)
RaceKey == "a"

Returned(call, err) == [call EXCEPT !.pc = "done", !.err = err]

RaceLoad(p) ==
    \E context \in ContextArgs, env \in EnvArgs, r \in RemoteOutcomes :
        /\ p \in active
        /\ upd[p].pc = "idle"
        /\ \E res \in {UpdateProjectLoad(projects, RaceKey, context, env, now, r, FALSE)} :
            LET call == [pc |-> "update", key |-> RaceKey, project |-> res.project,
                         calls |-> res.calls, remote |-> r, changed |-> "none",
                         context |-> context, envArg |-> env, err |-> NoError]
            IN  /\ projects' = res.projects
                /\ IF res.err # NoError
                   THEN /\ upd' = [upd EXCEPT ![p] = Returned(call, res.err)]
                        /\ ret' = [NoRet EXCEPT !.op = "UpdateProject", !.key = RaceKey,
                                                !.err = res.err, !.calls = res.calls,
                                                !.remote = r]
                   ELSE /\ upd' = [upd EXCEPT ![p] = call]
                        /\ ret' = NoRet
        /\ UNCHANGED <<overrides, now, active, lastEvent, observers>>

RaceStore(p) ==
    /\ p \in active
    /\ upd[p].pc = "update"
    /\ \E res \in {UpdateProjectStore(projects, upd[p].project, FALSE)} :
        /\ projects' = res.projects
        /\ IF res.err # NoError
           THEN /\ upd' = [upd EXCEPT ![p] = Returned([upd[p] EXCEPT !.changed = "false"],
                                                      res.err)]
                /\ ret' = [NoRet EXCEPT !.op = "UpdateProject", !.key = upd[p].key,
                                        !.err = res.err, !.calls = upd[p].calls,
                                        !.remote = upd[p].remote, !.changed = "false"]
           ELSE /\ upd' = [upd EXCEPT ![p].pc = "notify", ![p].changed = "true"]
                /\ ret' = NoRet
    /\ UNCHANGED <<overrides, now, active, lastEvent, observers>>

RaceNotify(p) ==
    /\ p \in active
    /\ upd[p].pc = "notify"
    /\ \E res \in {UpdateProjectNotify(upd[p].project, overrides, observers,
                                        upd[p].key, FALSE)} :
        /\ upd' = [upd EXCEPT ![p] = Returned(upd[p], res.err)]
        /\ ret' = [NoRet EXCEPT !.op = "UpdateProject", !.key = upd[p].key,
                                !.project = res.project, !.err = res.err,
                                !.events = res.events, !.deliveries = res.deliveries,
                                !.calls = upd[p].calls, !.remote = upd[p].remote,
                                !.changed = upd[p].changed]
        /\ lastEvent' = IF res.events = <<>> THEN lastEvent
                        ELSE [lastEvent EXCEPT ![res.events[1].ProjectKey] =
                                  Some(res.events[1].AllFlagsState)]
    /\ UNCHANGED <<projects, overrides, now, active, observers>>

(* A caller loads a project and asks for its layered flag state. *)
DoGetFlagState ==
    \E projectKey \in DOMAIN projects, fail \in BOOLEAN :
        LET res == GetFlagStateWithOverridesForProject(projects[projectKey], overrides, fail)
        IN  /\ ret' = [NoRet EXCEPT !.op = "GetFlagState", !.key = projectKey,
                                    !.project = res.project, !.state = res.state,
                                    !.err = res.err]
            /\ UNCHANGED <<projects, overrides, now, upd, active, lastEvent, observers>>

(* The same caller asks again, on the Project value it holds. *)
DoGetFlagStateAgain ==
    LET res == GetFlagStateWithOverridesForProject(ret.project, overrides, FALSE)
    IN  /\ ret.op = "GetFlagState"
        /\ ret.err = NoError
        /\ ret' = [ret EXCEPT !.project = res.project, !.state = res.state,
                              !.err = res.err, !.again = TRUE]
        /\ UNCHANGED <<projects, overrides, now, upd, active, lastEvent, observers>>

DoGetCloudProjectKey ==
    \E projectKey \in DOMAIN projects :
        /\ ret' = [NoRet EXCEPT !.op = "GetCloudProjectKey", !.key = projectKey,
                                !.project = projects[projectKey],
                                !.result = GetCloudProjectKey(projects[projectKey])]
        /\ UNCHANGED <<projects, overrides, now, upd, active, lastEvent, observers>>

(* Operations of the surrounding service that write the store. *)
DoUpsertOverride ==
    \E projectKey \in DOMAIN projects, flagKey \in UpsertFlags, value \in BOOLEAN, isActive \in BOOLEAN :
        /\ HasOverride(overrides, projectKey, flagKey)
              => OverrideAt(overrides, projectKey, flagKey).Version < MaxOverrideVersion
        /\ overrides' = StoreUpsertOverride(overrides,
                            NewOverride(projectKey, flagKey, value, isActive), FALSE).overrides
        /\ ret' = NoRet
        /\ UNCHANGED <<projects, now, upd, active, lastEvent, observers>>

DoDeleteProject ==
    \E projectKey \in DOMAIN projects :
        /\ projects' = StoreDeleteProject(projects, projectKey)
        /\ overrides' = {o \in overrides : o.ProjectKey # projectKey}
        /\ ret' = NoRet
        /\ UNCHANGED <<now, upd, active, lastEvent, observers>>

----------------------------------------------------------------------------
(* SpecCreate: projects are created in an empty store, and deleted. *)

InitCreate ==
    /\ projects = <<>>
    /\ overrides = {}
    /\ now = 1
    /\ InitCommon

NextCreate ==
    \/ DoCreateProject
    \/ DoDeleteProject
    \/ Tick

SpecCreate == InitCreate /\ [][NextCreate]_vars

(* SpecClone: project a was created and given overrides; then projects are *)
(* cloned, from a and from its clones.                                     *)

InitClone ==
    /\ \E p \in CloneRoots : projects = [k \in {"a"} |-> p]
    /\ overrides \in CloneOverrideSets
    /\ now = MaxTime
    /\ InitCommon

NextClone ==
    \/ DoCloneProject
    \/ DoGetCloudProjectKey

SpecClone == InitClone /\ [][NextClone]_vars

(* SpecLayer: one stored project with overrides, read by its callers. *)

InitLayer ==
    /\ \E p \in CreatedProjects({"a"}, 1) : projects = [k \in {"a"} |-> p]
    /\ overrides \in OverrideSets("a")
    /\ now = MaxTime
    /\ InitCommon

NextLayer ==
    \/ DoGetFlagState
    \/ DoGetFlagStateAgain

SpecLayer == InitLayer /\ [][NextLayer]_vars

(* SpecUpdate: one request flow updates project a, which is a created      *)
(* project or the clone of one since deleted, while the service writes     *)
(* overrides and deletes the project.                                      *)

InitUpdate ==
    /\ \E p \in CreatedProjects({"a"}, 1) \cup
                {ClonedProject(q, "a", 1) : q \in CreatedProjects({"c"}, 1)} :
           projects = [k \in {"a"} |-> p]
    /\ overrides = {}
    /\ now = MaxTime
    /\ InitCommon

NextUpdate ==
    \/ \E p \in Procs : UpdateStart(p)
    \/ \E p \in Procs : UpdateStore(p)
    \/ \E p \in Procs : UpdateNotify(p)
    \/ DoUpsertOverride
    \/ DoDeleteProject

SpecUpdate == InitUpdate /\ [][NextUpdate]_vars

(* SpecApi: project a was created and given overrides; clients post clone   *)
(* requests for target b, and b is deleted again.                           *)

InitApi ==
    /\ \E p \in CloneRoots : projects = [k \in {"a"} |-> p]
    /\ overrides \in CloneOverrideSets
    /\ now = MaxTime
    /\ InitCommon

NextApi ==
    \/ DoPostCloneProject
    \/ DoDeleteProject

SpecApi == InitApi /\ [][NextApi]_vars

(* SpecRefresh: project a is the clone of a project c since deleted; it is  *)
(* updated, deleted and created again under the same key.                   *)

InitRefresh ==
    /\ \E q \in {x \in CreatedProjects({"c"}, 1) :
                     /\ x.SourceEnvironmentKey = "env1"
                     /\ x.Context = DefaultContext
                     /\ DOMAIN x.AllFlagsState = Flags} :
           projects = [k \in {"a"} |-> ClonedProject(q, "a", 1)]
    /\ overrides = {}
    /\ now = MaxTime
    /\ InitCommon

NextRefresh ==
    \/ DoCreateProject
    \/ \E p \in Procs : UpdateStart(p)
    \/ \E p \in Procs : UpdateStore(p)
    \/ \E p \in Procs : UpdateNotify(p)
    \/ DoDeleteProject

SpecRefresh == InitRefresh /\ [][NextRefresh]_vars

(* SpecRace: two request flows each update the stored project a once, in    *)
(* any interleaving of their store calls, while the project may be deleted. *)

InitRace ==
    /\ \E p \in CloneRoots : projects = [k \in {"a"} |-> p]
    /\ overrides = {}
    /\ now = MaxTime
    /\ upd = [p \in Procs |-> Idle]
    /\ active = Procs
    /\ ret = NoRet
    /\ lastEvent = [k \in Keys |-> Nil]
    /\ observers = RegisterObservers(ObserverIds, <<"returns", "returns">>)

NextRace ==
    \/ \E p \in Procs : RaceLoad(p)
    \/ \E p \in Procs : RaceStore(p)
    \/ \E p \in Procs : RaceNotify(p)
    \/ DoDeleteProject

SpecRace == InitRace /\ [][NextRace]_vars

(* SpecSync: in an empty store project a is created for env1 with the       *)
(* default context and cloned onto b; one request flow updates b, and b is  *)
(* deleted and cloned again.                                                *)

SyncKey == "b"

InitSync ==
    /\ projects = <<>>
    /\ overrides = {}
    /\ now = MaxTime
    /\ InitCommon

NextSync ==
    \/ DoCreateProject /\ ret'.env = "env1" /\ ret'.context = Nil
    \/ DoCloneProject /\ ret'.key = SyncKey
    \/ \E p \in Procs : UpdateStart(p) /\ SyncKey \in {ret'.key, upd'[p].key}
    \/ \E p \in Procs : UpdateStore(p)
    \/ \E p \in Procs : UpdateNotify(p)
    \/ DoDeleteProject /\ DOMAIN projects' = DOMAIN projects \ {SyncKey}

SpecSync == InitSync /\ [][NextSync]_vars

(* SpecNotify: one request flow updates project a under every registry of   *)
(* up to two observers, whose handlers return, fail or panic.               *)

Registries ==
    UNION {{RegisterObservers(SubSeq(ObserverIds, 1, n), h) : h \in [1..n -> Handlers]} :
               n \in 0..Len(ObserverIds)}

InitNotify ==
    /\ \E p \in CloneRoots : projects = [k \in {"a"} |-> p]
    /\ overrides \in {ovs \in CloneOverrideSets :
                         Cardinality(ovs) # 1 /\ \A o \in ovs : o.Active}
    /\ now = MaxTime
    /\ upd = [p \in Procs |-> Idle]
    /\ active = {1}
    /\ ret = NoRet
    /\ lastEvent = [k \in Keys |-> Nil]
    /\ observers \in Registries

NextNotify ==
    \/ \E p \in Procs : UpdateStart(p)
    \/ \E p \in Procs : UpdateStore(p)
    \/ \E p \in Procs : UpdateNotify(p)

SpecNotify == InitNotify /\ [][NextNotify]_vars

----------------------------------------------------------------------------
(* Properties *)

OverridesFor(projectKey, flagKey) ==
    {o \in overrides : o.ProjectKey = projectKey /\ o.FlagKey = flagKey}

(* C1: in a chain of clones that starts from the created project a, every   *)
(* clone is stored with SourceProjectKey = a.GetCloudProjectKey(), the key  *)
(* of the remote project, and never with the key of a local clone.          *)
C1_CloneChainKeepsCloudKey ==
    \A k \in DOMAIN projects \ {"a"} :
        /\ projects[k].SourceProjectKey = GetCloudProjectKey(projects["a"])
        /\ projects[k].SourceProjectKey = "a"
        /\ projects[k].SourceProjectKey \notin CloneTargets

(* C1 witness: a clone of a clone has been stored. *)
C1_Witness ==
    /\ ret.op = "CloneProject"
    /\ ret.err = NoError
    /\ ret.source \in CloneTargets
    /\ projects[ret.source].SourceProjectKey = "a"
    /\ projects[ret.key].SourceProjectKey = "a"

(* C2: GetCloudProjectKey returns SourceProjectKey when it is non-empty and *)
(* Key otherwise, and leaves the project as it was.                         *)
C2_GetCloudProjectKey ==
    ret.op = "GetCloudProjectKey" =>
        /\ ret.result = IF projects[ret.key].SourceProjectKey # ""
                        THEN projects[ret.key].SourceProjectKey
                        ELSE projects[ret.key].Key
        /\ ret.project = projects[ret.key]

(* C2 witness: the key of a clone was asked for. *)
C2_Witness ==
    /\ ret.op = "GetCloudProjectKey"
    /\ ret.project.SourceProjectKey # ""
    /\ ret.result # ret.project.Key

(* C3: for a synced flag with an active override, the layered entry has the *)
(* override's Value and the synced Version plus one, whatever the           *)
(* override's own Version.                                                  *)
C3_ActiveOverrideBumpsVersion ==
    (ret.op = "GetFlagState" /\ ret.err = NoError) =>
        \A f \in DOMAIN projects[ret.key].AllFlagsState :
            \A o \in OverridesFor(ret.key, f) :
                o.Active =>
                    ret.state[f] = [Value |-> o.Value,
                                    Version |-> projects[ret.key].AllFlagsState[f].Version + 1]

(* C3 witness: an active override whose own Version is not 1 was layered on *)
(* a flag with another value.                                               *)
C3_Witness ==
    /\ ret.op = "GetFlagState"
    /\ ret.err = NoError
    /\ \E f \in DOMAIN projects[ret.key].AllFlagsState :
           \E o \in OverridesFor(ret.key, f) :
               /\ o.Active
               /\ o.Version = 2
               /\ o.Value # projects[ret.key].AllFlagsState[f].Value
               /\ projects[ret.key].AllFlagsState[f].Version = 2
               /\ ret.state[f].Version = 3

(* C4: for a flag with an inactive override the layered state is the synced *)
(* state, Value and Version, as if there were no override.                  *)
C4_InactiveOverrideIgnored ==
    (ret.op = "GetFlagState" /\ ret.err = NoError) =>
        \A f \in Flags :
            \A o \in OverridesFor(ret.key, f) :
                ~o.Active =>
                    IF f \in DOMAIN projects[ret.key].AllFlagsState
                    THEN /\ f \in DOMAIN ret.state
                         /\ ret.state[f] = projects[ret.key].AllFlagsState[f]
                    ELSE f \notin DOMAIN ret.state

(* C4 witness: an inactive override with another value than the synced one. *)
C4_Witness ==
    /\ ret.op = "GetFlagState"
    /\ ret.err = NoError
    /\ \E f \in DOMAIN projects[ret.key].AllFlagsState :
           \E o \in OverridesFor(ret.key, f) :
               /\ ~o.Active
               /\ o.Value # projects[ret.key].AllFlagsState[f].Value
               /\ ret.state[f] = projects[ret.key].AllFlagsState[f]

(* C5: a second call on the same project, with no store write in between,   *)
(* returns the same mapping, and the project's AllFlagsState, in memory and *)
(* in the store, is what it was before the calls.                           *)
C5_LayeringIdempotent ==
    [][ (ret'.op = "GetFlagState" /\ ret'.err = NoError) =>
            /\ projects' = projects
            /\ overrides' = overrides
            /\ ret'.project.AllFlagsState = projects[ret'.key].AllFlagsState
            /\ (ret.op = "GetFlagState" /\ ret.err = NoError /\ ret'.again)
                   => ret'.state = ret.state ]_vars

(* C5 witness: the second call returned a mapping with a bumped version.    *)
C5_Witness ==
    /\ ret.op = "GetFlagState"
    /\ ret.again
    /\ ret.err = NoError
    /\ \E f \in DOMAIN ret.state :
           ret.state[f].Version = projects[ret.key].AllFlagsState[f].Version + 1

(* C6: when the store's conditional update reports changed = false without  *)
(* an error, UpdateProject fails with "Project not updated", returns an     *)
(* empty Project and hands no SyncEvent to the observers.                   *)
C6_NotUpdatedFails ==
    (ret.op = "UpdateProject" /\ ret.changed = "false") =>
        /\ ret.err = ErrNotUpdated
        /\ ret.err.msgs = <<<<"Project not updated", "">>>>
        /\ ret.project = EmptyProject
        /\ ret.events = <<>>
        /\ ret.deliveries = <<>>

(* C6 witness: the project was deleted after the load, and the update       *)
(* changed no row.                                                          *)
C6_Witness ==
    /\ ret.op = "UpdateProject"
    /\ ret.changed = "false"
    /\ ret.key \notin DOMAIN projects

RemoteFailure(r) ==
    IF ~r.sdk THEN ErrSdkKey
    ELSE IF r.st = 0 THEN ErrAllFlagsState
    ELSE IF ~r.fl THEN ErrAllFlags
    ELSE NoError

(* C7: when a remote call of CreateProject fails, CreateProject returns     *)
(* that call's error as it is, attempts no insert, and the store is what it *)
(* was before the call.                                                     *)
C7_CreateRemoteFailureWritesNothing ==
    [][ (ret'.op = "CreateProject" /\ RemoteFailure(ret'.remote) # NoError) =>
            /\ ret'.err = RemoteFailure(ret'.remote)
            /\ ret'.project = EmptyProject
            /\ ret'.inserts = 0
            /\ projects' = projects
            /\ overrides' = overrides ]_vars

(* C7 witness: the flag state was fetched, the flag list was not, and the   *)
(* key was free.                                                            *)
C7_Witness ==
    /\ ret.op = "CreateProject"
    /\ ret.remote.sdk
    /\ ret.remote.st # 0
    /\ ~ret.remote.fl
    /\ ret.err = ErrAllFlags
    /\ ret.key \notin DOMAIN projects

LayeredOn(synced, projectKey) ==
    [f \in DOMAIN synced |->
        IF \E o \in OverridesFor(projectKey, f) : o.Active
        THEN [Value |-> (CHOOSE o \in OverridesFor(projectKey, f) : o.Active).Value,
              Version |-> synced[f].Version + 1]
        ELSE synced[f]]

(* C8: a successful UpdateProject hands exactly one SyncEvent to the        *)
(* observer registry, with the project's Key and the freshly synced state   *)
(* under the project's active overrides; the Project it returns carries the *)
(* synced state without overrides.                                          *)
C8_UpdateNotifiesLayeredReturnsSynced ==
    (ret.op = "UpdateProject" /\ ret.err = NoError) =>
        LET synced == FromAllFlags(SdkStates[ret.remote.st])
        IN  /\ ret.events = <<[ProjectKey |-> ret.key,
                               AllFlagsState |-> LayeredOn(synced, ret.key)]>>
            /\ \A i \in 1..Len(ret.deliveries) : ret.deliveries[i].event = ret.events[1]
            /\ ret.project.Key = ret.key
            /\ ret.project.AllFlagsState = synced

(* C8 witness: the event differs from the returned state by an active       *)
(* override, and the project is a clone, whose Key is not its cloud key.    *)
C8_Witness ==
    /\ ret.op = "UpdateProject"
    /\ ret.err = NoError
    /\ ret.project.SourceProjectKey # ""
    /\ Len(ret.events) = 1
    /\ ret.events[1].AllFlagsState # ret.project.AllFlagsState

(* C9: when a remote step of UpdateProject's refresh fails, the store is    *)
(* what it was before the call: no Context, SourceEnvironmentKey,           *)
(* AllFlagsState or LastSyncTime of the call reaches it.                    *)
C9_UpdateRemoteFailureWritesNothing ==
    [][ (ret'.op = "UpdateProject" /\ ret'.err.kind = "remote") =>
            /\ projects' = projects
            /\ overrides' = overrides
            /\ ret'.project = EmptyProject ]_vars

(* C9 witness: the flag list fetch failed after the flag state fetch, in a  *)
(* call that asked for another environment and context and got another flag *)
(* state at another time than the stored ones.                              *)
C9_Witness ==
    /\ ret.op = "UpdateProject"
    /\ ret.err = ErrAllFlags
    /\ ret.key \in DOMAIN projects
    /\ ret.calls[1].env # projects[ret.key].SourceEnvironmentKey
    /\ ret.calls[2].context # projects[ret.key].Context
    /\ FromAllFlags(SdkStates[ret.remote.st]) # projects[ret.key].AllFlagsState
    /\ now # projects[ret.key].LastSyncTime

(* C10: a successful CloneProject calls no remote adapter and stores a      *)
(* target with the source's SourceEnvironmentKey, Context, AllFlagsState    *)
(* and AvailableVariations as the store held them, and Key = targetKey; the *)
(* source project and its overrides stay as they were.                      *)
C10_CloneCopiesSource ==
    [][ (ret'.op = "CloneProject" /\ ret'.err = NoError) =>
            /\ ret'.calls = <<>>
            /\ ret'.source \in DOMAIN projects
            /\ ret'.key \in DOMAIN projects'
            /\ projects'[ret'.key].Key = ret'.key
            /\ projects'[ret'.key].SourceEnvironmentKey = projects[ret'.source].SourceEnvironmentKey
            /\ projects'[ret'.key].Context = projects[ret'.source].Context
            /\ projects'[ret'.key].AllFlagsState = projects[ret'.source].AllFlagsState
            /\ projects'[ret'.key].AvailableVariations = projects[ret'.source].AvailableVariations
            /\ ret'.project = projects'[ret'.key]
            /\ \A k \in DOMAIN projects : k \in DOMAIN projects' /\ projects'[k] = projects[k]
            /\ {o \in overrides' : o.ProjectKey # ret'.key} = overrides ]_vars

(* C10 witness: a project with flags, variations and overrides was cloned   *)
(* without its overrides, later than it was synced.                         *)
C10_Witness ==
    /\ ret.op = "CloneProject"
    /\ ret.err = NoError
    /\ ~ret.include
    /\ ret.project.AllFlagsState # EmptyFlagsState
    /\ ret.project.AvailableVariations # <<>>
    /\ ret.project.AllFlagsState = projects[ret.source].AllFlagsState
    /\ ret.project.LastSyncTime # projects[ret.source].LastSyncTime
    /\ \E o \in overrides : o.ProjectKey = ret.source

OverridesOf(ovs, projectKey) == {o \in ovs : o.ProjectKey = projectKey}

Copied(o, targetKey) ==
    [ProjectKey |-> targetKey, FlagKey |-> o.FlagKey, Value |-> o.Value, Active |-> o.Active]

Content(o) ==
    [ProjectKey |-> o.ProjectKey, FlagKey |-> o.FlagKey, Value |-> o.Value, Active |-> o.Active]

(* C11: after a successful CloneProject with includeOverrides the target    *)
(* has exactly one override per override of the source, active or not, with *)
(* ProjectKey = targetKey and the source's FlagKey, Value and Active;       *)
(* without includeOverrides no override is read and none is written.        *)
C11_CloneCopiesOverrides ==
    [][ (ret'.op = "CloneProject" /\ ret'.err = NoError) =>
            LET source == OverridesOf(overrides, ret'.source)
                target == OverridesOf(overrides', ret'.key)
            IN  IF ret'.include
                THEN /\ ret'.gets = 1
                     /\ ret'.upserts = Cardinality(source)
                     /\ Cardinality(target) = Cardinality(source)
                     /\ {Content(o) : o \in target} = {Copied(o, ret'.key) : o \in source}
                     /\ \A o \in overrides' : o \in target \/ o \in overrides
                ELSE /\ ret'.gets = 0
                     /\ ret'.upserts = 0
                     /\ target = {}
                     /\ overrides' = overrides ]_vars

(* C11 witness: a project with an active override the store had rewritten   *)
(* and an inactive one was cloned with its overrides.                       *)
C11_Witness ==
    /\ ret.op = "CloneProject"
    /\ ret.err = NoError
    /\ ret.include
    /\ ret.upserts = 2
    /\ \E o \in OverridesOf(overrides, ret.source) : o.Active /\ o.Version = MaxOverrideVersion
    /\ \E o \in OverridesOf(overrides, ret.key) : o.Active /\ o.Version = 1
    /\ \E o \in OverridesOf(overrides, ret.key) : ~o.Active

(* C12: when the copy of the k-th override fails, CloneProject returns an   *)
(* error naming that flag and an empty Project, attempts no further copy     *)
(* and rolls nothing back: the target project and the k-1 overrides copied  *)
(* before stay in the store.                                                *)
C12_CloneCopyFailureKeepsPartial ==
    [][ (ret'.op = "CloneProject" /\ ret'.err # NoError /\ ret'.upserts >= 1) =>
            LET sourceOverrides ==
                    StoreGetOverridesForProject(overrides, ret'.source, FALSE).overrides
                k == ret'.upserts
                target == OverridesOf(overrides', ret'.key)
            IN  /\ ret'.include
                /\ k <= Len(sourceOverrides)
                /\ ret'.err.msgs[1] = <<"unable to clone override for flag",
                                        sourceOverrides[k].FlagKey>>
                /\ ret'.project = EmptyProject
                /\ ret'.key \notin DOMAIN projects
                /\ ret'.key \in DOMAIN projects'
                /\ projects'[ret'.key].Key = ret'.key
                /\ {Content(o) : o \in target} =
                       {Copied(sourceOverrides[i], ret'.key) : i \in 1..(k - 1)}
                /\ Cardinality(target) = k - 1
                /\ OverridesOf(overrides', ret'.source) = OverridesOf(overrides, ret'.source) ]_vars

(* C12 witness: the second copy failed, the first one is in the store.      *)
C12_Witness ==
    /\ ret.op = "CloneProject"
    /\ ret.err # NoError
    /\ ret.upserts = 2
    /\ ret.err.msgs[1] = <<"unable to clone override for flag", "f2">>
    /\ ret.key \in DOMAIN projects
    /\ Cardinality(OverridesOf(overrides, ret.key)) = 1
    /\ Cardinality(OverridesOf(overrides, ret.source)) = 2

(* C13: CloneProject onto a key the store already holds fails, with an      *)
(* AlreadyExists error once the source was loaded, leaves the stored target *)
(* and its overrides as they were and copies no override, also with         *)
(* includeOverrides.                                                        *)
C13_CloneOntoExistingTarget ==
    [][ (ret'.op = "CloneProject" /\ ret'.key \in DOMAIN projects) =>
            /\ ret'.err # NoError
            /\ ret'.project = EmptyProject
            /\ projects' = projects
            /\ overrides' = overrides
            /\ ret'.gets = 0
            /\ ret'.upserts = 0
            /\ (ret'.source \in DOMAIN projects /\ ret'.err.kind # "store") =>
                   /\ ret'.err.kind = "AlreadyExists"
                   /\ ret'.err.msgs[1] = <<"unable to insert cloned project", ret'.key>> ]_vars

(* C13 witness: a clone with overrides onto a target that has overrides of  *)
(* its own, from a source that has others.                                  *)
C13_Witness ==
    /\ ret.op = "CloneProject"
    /\ ret.include
    /\ ret.err.kind = "AlreadyExists"
    /\ ret.source # ret.key
    /\ ret.source \in DOMAIN projects
    /\ ret.key \in DOMAIN projects
    /\ OverridesOf(overrides, ret.source) # {}
    /\ {Copied(o, "") : o \in OverridesOf(overrides, ret.key)}
           # {Copied(o, "") : o \in OverridesOf(overrides, ret.source)}

(* The step in which flow p's UpdateProject makes its conditional update    *)
(* for a project that has left the store since the call loaded it.          *)
UpdatesDeleted(p) ==
    /\ upd[p].pc = "update"
    /\ upd'[p].pc # "update"
    /\ upd[p].key \notin DOMAIN projects
    /\ ret'.err.kind # "store"

(* C14 as stated: a project deleted between UpdateProject's load and its    *)
(* conditional update makes UpdateProject return a not-found error, without *)
(* re-creating the project and without a SyncEvent.                         *)
C14_DeletedSurfacesNotFound ==
    [][ \A p \in Procs : UpdatesDeleted(p) =>
            /\ ret'.op = "UpdateProject"
            /\ ret'.err.kind = "NotFound"
            /\ upd[p].key \notin DOMAIN projects'
            /\ ret'.events = <<>>
            /\ ret'.deliveries = <<>>
            /\ lastEvent' = lastEvent ]_vars

(* C14 amended: a project deleted between UpdateProject's load and its      *)
(* conditional update makes UpdateProject return the plain error "Project   *)
(* not updated", which is not of the NotFound kind, and an empty Project,   *)
(* without re-creating the project and without a SyncEvent.                 *)
C14_DeletedSurfacesNotUpdated ==
    [][ \A p \in Procs : UpdatesDeleted(p) =>
            /\ ret'.op = "UpdateProject"
            /\ ret'.key = upd[p].key
            /\ ret'.err = ErrNotUpdated
            /\ ret'.err.kind # "NotFound"
            /\ ret'.project = EmptyProject
            /\ upd'[p] = Idle
            /\ projects' = projects
            /\ upd[p].key \notin DOMAIN projects'
            /\ ret'.events = <<>>
            /\ ret'.deliveries = <<>>
            /\ lastEvent' = lastEvent ]_vars

(* C14 witness: the call refreshed a project from the remote side, the      *)
(* project was deleted, and the call returned "Project not updated".        *)
C14_Witness ==
    /\ ret.op = "UpdateProject"
    /\ ret.err = ErrNotUpdated
    /\ Len(ret.calls) = 3
    /\ ret.remote.fl
    /\ ret.key \notin DOMAIN projects
    /\ upd = [p \in Procs |-> Idle]

C16_CreateProjectStoresWhatItReturns ==
    [][ (ret'.op = "CreateProject" /\ RemoteFailure(ret'.remote) = NoError) =>
            IF ret'.err = NoError
            THEN /\ ret'.key \notin DOMAIN projects
                 /\ ret'.inserts = 1
                 /\ projects' = [k \in DOMAIN projects \cup {ret'.key} |->
                                    IF k = ret'.key THEN ret'.project ELSE projects[k]]
                 /\ ret'.project.Key = ret'.key
                 /\ ret'.project.SourceEnvironmentKey = ret'.env
                 /\ ret'.project.SourceProjectKey = ""
                 /\ ret'.project.Context =
                        IF ret'.context = Nil
                        THEN [kind |-> "user", key |-> "dev-environment"]
                        ELSE ret'.context[1]
                 /\ \A f \in Flags :
                        IF f \in DOMAIN SdkStates[ret'.remote.st]
                        THEN /\ f \in DOMAIN ret'.project.AllFlagsState
                             /\ ret'.project.AllFlagsState[f].Value
                                    = SdkStates[ret'.remote.st][f].Value
                             /\ ret'.project.AllFlagsState[f].Version
                                    = SdkStates[ret'.remote.st][f].Version
                        ELSE f \notin DOMAIN ret'.project.AllFlagsState
            ELSE /\ ret'.inserts = 1
                 /\ ret'.err \in {ErrStore, NewErrAlreadyExists(ret'.key)}
                 /\ ret'.err.kind = "AlreadyExists" => ret'.key \in DOMAIN projects
                 /\ ret'.project = EmptyProject
                 /\ projects' = projects ]_vars

(* C16 witness: a project was created without a context, after the clock    *)
(* had advanced, and is in the store with the default context.              *)
C16_Witness ==
    /\ ret.op = "CreateProject"
    /\ ret.err = NoError
    /\ ret.context = Nil
    /\ ret.key \in DOMAIN projects
    /\ projects[ret.key] = ret.project
    /\ ret.project.Context = DefaultContext
    /\ ret.project.LastSyncTime = MaxTime
    /\ "f2" \in DOMAIN ret.project.AllFlagsState

(* C17: PostCloneProject answers 400, without calling the engine or         *)
(* touching the store, when the body's sourceProjectKey is empty; 404 when  *)
(* CloneProject fails because the source is absent; 409 when it fails       *)
(* because the target key is taken; 201 only when CloneProject succeeded.   *)
(* The NotFound or AlreadyExists kind is that of the store's error, under   *)
(* the context CloneProject wraps it in.                                    *)
C17_PostCloneProjectStatus ==
    [][ ret'.op = "PostCloneProject" =>
            /\ ret'.source = "" =>
                   /\ ret'.status = 400
                   /\ ret'.engine = 0
                   /\ projects' = projects
                   /\ overrides' = overrides
            /\ (ret'.source # "" /\ ret'.source \notin DOMAIN projects
                    /\ ret'.cloneErr.kind # "store") =>
                   /\ ret'.status = 404
                   /\ ret'.cloneErr.kind = "NotFound"
                   /\ ret'.cloneErr.msgs = <<<<"unable to get source project", ret'.source>>,
                                             <<"project not found", ret'.source>>>>
            /\ (ret'.source \in DOMAIN projects /\ ret'.key \in DOMAIN projects
                    /\ ret'.cloneErr.kind # "store") =>
                   /\ ret'.status = 409
                   /\ ret'.cloneErr.kind = "AlreadyExists"
                   /\ ret'.cloneErr.msgs = <<<<"unable to insert cloned project", ret'.key>>,
                                             <<"project already exists", ret'.key>>>>
            /\ ret'.status = 404 <=> ret'.cloneErr.kind = "NotFound"
            /\ ret'.status = 409 <=> ret'.cloneErr.kind = "AlreadyExists"
            /\ ret'.status = 201 =>
                   /\ ret'.engine = 1
                   /\ ret'.cloneErr = NoError
                   /\ ret'.err = NoError
                   /\ ret'.key \notin DOMAIN projects
                   /\ ret'.key \in DOMAIN projects'
            /\ ret'.status \in {0, 201, 400, 404, 409}
            /\ ret'.status = 0 <=> ret'.err # NoError ]_vars

(* C17 witness: a clone request onto a stored target was answered 409 with  *)
(* the wrapped AlreadyExists error in the message.                          *)
C17_Witness ==
    /\ ret.op = "PostCloneProject"
    /\ ret.status = 409
    /\ ret.include
    /\ ret.source \in DOMAIN projects
    /\ ret.key \in DOMAIN projects
    /\ ret.cloneErr.kind = "AlreadyExists"
    /\ ret.cloneErr.msgs[1][1] = "unable to insert cloned project"

(* C18: in a 201 response expanded with overrides, the Overrides mapping    *)
(* has an entry for a flag key exactly when the cloned project has an       *)
(* active override for it; an override copied with Active = false is in the *)
(* store for the target and not in the response.                            *)
C18_ResponseOverridesAreActive ==
    (ret.op = "PostCloneProject" /\ ret.status = 201 /\ ret.expand # Nil) =>
        LET target == OverridesOf(overrides, ret.key)
            items == {ret.expand[1][i] : i \in 1..Len(ret.expand[1])}
        IN  IF "overrides" \in items
            THEN /\ ret.body.Overrides # Nil
                 /\ \A f \in Flags :
                        f \in DOMAIN ret.body.Overrides[1]
                            <=> \E o \in target : o.FlagKey = f /\ o.Active
                 /\ \A o \in target :
                        o.Active => ret.body.Overrides[1][o.FlagKey] =
                                        [Value |-> o.Value, Version |-> o.Version]
            ELSE ret.body.Overrides = Nil

(* C18 witness: the clone copied an active and an inactive override; the    *)
(* response shows the active one only.                                      *)
C18_Witness ==
    /\ ret.op = "PostCloneProject"
    /\ ret.status = 201
    /\ ret.include
    /\ ret.body.Overrides # Nil
    /\ \E o \in OverridesOf(overrides, ret.key) :
           ~o.Active /\ o.FlagKey \notin DOMAIN ret.body.Overrides[1]
    /\ \E o \in OverridesOf(overrides, ret.key) :
           o.Active /\ o.FlagKey \in DOMAIN ret.body.Overrides[1]

(* The remote calls of one refresh of a project with the given cloud key,   *)
(* source environment and context, when the remote side answers r.          *)
RefreshCalls(cloudKey, env, context, r) ==
    LET c1 == [fn |-> "GetSdkKey", project |-> cloudKey, env |-> env,
               context |-> ZeroContext, sdkKey |-> NoSdkKey]
        c2 == [fn |-> "GetAllFlagsState", project |-> "", env |-> "",
               context |-> context, sdkKey |-> [project |-> cloudKey, env |-> env]]
        c3 == [fn |-> "GetAllFlags", project |-> cloudKey, env |-> "",
               context |-> ZeroContext, sdkKey |-> NoSdkKey]
    IN  IF ~r.sdk THEN <<c1>> ELSE IF r.st = 0 THEN <<c1, c2>> ELSE <<c1, c2, c3>>

CloudKeyOf(project) ==
    IF project.SourceProjectKey # "" THEN project.SourceProjectKey ELSE project.Key

(* The step in which flow p's UpdateProject loads and refreshes. *)
StartsUpdate(p) ==
    /\ upd[p].pc = "idle"
    /\ \/ upd'[p].pc = "update"
       \/ ret'.op = "UpdateProject" /\ upd' = upd

(* C19: every refresh, in CreateProject and in UpdateProject, calls         *)
(* GetSdkKey(cloud key, source environment), then GetAllFlagsState(context, *)
(* that SDK key), then GetAllFlags(cloud key), the cloud key being          *)
(* SourceProjectKey when set and Key otherwise; a failing call ends the     *)
(* refresh, so that no later call and no store write is made, and no call   *)
(* is made twice in one operation.                                          *)
C19_RefreshCallsInOrder ==
    [][ /\ ret'.op = "CreateProject" =>
            /\ ret'.calls = RefreshCalls(ret'.key, ret'.env,
                                         IF ret'.context = Nil
                                         THEN DefaultContext ELSE ret'.context[1],
                                         ret'.remote)
            /\ RemoteFailure(ret'.remote) # NoError =>
                   /\ ret'.err = RemoteFailure(ret'.remote)
                   /\ ret'.inserts = 0
                   /\ projects' = projects
        /\ \A p \in Procs : StartsUpdate(p) =>
            LET started == upd'[p].pc = "update"
                key == IF started THEN upd'[p].key ELSE ret'.key
                calls == IF started THEN upd'[p].calls ELSE ret'.calls
                r == IF started THEN upd'[p].remote ELSE ret'.remote
            IN  IF key \notin DOMAIN projects \/ (~started /\ ret'.err.kind = "store")
                THEN calls = <<>> /\ projects' = projects
                ELSE /\ \E context \in ContextArgs, env \in EnvArgs :
                         LET ctx == IF context = Nil
                                    THEN projects[key].Context ELSE context[1]
                             e == IF env = Nil
                                  THEN projects[key].SourceEnvironmentKey ELSE env[1]
                         IN  /\ calls = RefreshCalls(CloudKeyOf(projects[key]), e, ctx, r)
                             /\ started =>
                                    /\ upd'[p].project.Context = ctx
                                    /\ upd'[p].project.SourceEnvironmentKey = e
                     /\ projects' = projects
                     /\ started <=> RemoteFailure(r) = NoError
                     /\ ~started => ret'.err = RemoteFailure(r)
        /\ \A p \in Procs : (upd[p].pc # "idle" /\ upd'[p] # upd[p]) =>
            IF upd'[p].pc = "idle" THEN ret'.calls = upd[p].calls
            ELSE upd'[p].calls = upd[p].calls ]_vars

(* C19 witness: an UpdateProject of the clone a returned after the three    *)
(* calls of its refresh, made for the cloud project c.                      *)
C19_Witness ==
    /\ ret.op = "UpdateProject"
    /\ ret.err = NoError
    /\ ret.key = "a"
    /\ Len(ret.calls) = 3
    /\ ret.calls[1].fn = "GetSdkKey"
    /\ ret.calls[1].project = "c"
    /\ ret.calls[2].sdkKey.project = "c"
    /\ ret.calls[3].project = "c"
    /\ ret.project.SourceProjectKey = "c"

(* The field changes an UpdateProject call of flow p asked for that the     *)
(* call of the other flow q did not ask for are in the stored project.      *)
KeepsChanges(p, q) ==
    /\ (upd[p].context # Nil /\ upd[q].context = Nil) =>
           projects[RaceKey].Context = upd[p].context[1]
    /\ (upd[p].envArg # Nil /\ upd[q].envArg = Nil) =>
           projects[RaceKey].SourceEnvironmentKey = upd[p].envArg[1]

(* C20 as stated: when two UpdateProject calls for the same stored key have *)
(* both returned, in whatever interleaving of their store calls, every call *)
(* that returned success has its field changes in the stored project (both  *)
(* calls when both succeeded: the Context set by one and the                *)
(* SourceEnvironmentKey set by the other); a call whose write was lost has  *)
(* failed.                                                                  *)
C20_ConcurrentUpdatesKeepBothChanges ==
    ((\A p \in Procs : upd[p].pc = "done") /\ RaceKey \in DOMAIN projects) =>
        \A p \in Procs, q \in Procs :
            (p # q /\ upd[p].err = NoError) => KeepsChanges(p, q)

(* C21 as stated: when the concurrent UpdateProject calls for one project   *)
(* key have all returned, in whatever interleaving of their steps, the last *)
(* SyncEvent the shared observers handled for that key carries the          *)
(* override-layered flag state of the project as it is stored.              *)
C21_LastSyncEventMatchesStore ==
    ((\A p \in Procs : upd[p].pc = "done")
        /\ RaceKey \in DOMAIN projects
        /\ lastEvent[RaceKey] # Nil) =>
        lastEvent[RaceKey] =
            Some(GetFlagStateWithOverridesForProject(projects[RaceKey], overrides,
                                                     FALSE).state)

(* The error UpdateProject returns when its override fetch fails. *)
OverrideFetchError(projectKey) ==
    [kind |-> "store",
     msgs |-> << <<"unable to get overrides for project,", projectKey>>,
                 <<"unable to fetch overrides for project", projectKey>>,
                 <<"store fails", "">> >>]

(* C22: a SyncEvent is delivered only by the step of an UpdateProject call  *)
(* that follows the call's own store update, which has put the refreshed    *)
(* project into the store under the event's key; when the override fetch    *)
(* after a successful store update fails, UpdateProject returns the wrapped *)
(* store error and an empty Project, delivers no SyncEvent and leaves the   *)
(* store as written; CreateProject and CloneProject deliver no SyncEvent.   *)
C22_SyncEventOnlyAfterCommit ==
    [][ /\ (ret'.events # <<>> \/ ret'.deliveries # <<>> \/ lastEvent' # lastEvent) =>
              \E p \in Procs :
                  /\ upd[p].pc = "notify"
                  /\ upd[p].changed = "true"
                  /\ upd'[p].pc = "idle"
                  /\ ret'.op = "UpdateProject"
                  /\ ret'.err = NoError
                  /\ Len(ret'.events) = 1
                  /\ ret'.events[1].ProjectKey = upd[p].key
                  /\ lastEvent' = [lastEvent EXCEPT ![upd[p].key] =
                                       Some(ret'.events[1].AllFlagsState)]
        /\ \A p \in Procs :
              (upd[p].pc = "update" /\ upd'[p].pc = "notify") =>
                  /\ upd'[p].changed = "true"
                  /\ upd[p].key \in DOMAIN projects'
                  /\ projects'[upd[p].key] = upd[p].project
        /\ \A p \in Procs :
              (upd[p].pc = "notify" /\ upd'[p].pc = "idle" /\ ret'.err # NoError) =>
                  /\ upd[p].changed = "true"
                  /\ ret'.op = "UpdateProject"
                  /\ ret'.err = OverrideFetchError(upd[p].key)
                  /\ ret'.project = EmptyProject
                  /\ ret'.events = <<>>
                  /\ ret'.deliveries = <<>>
                  /\ lastEvent' = lastEvent
                  /\ projects' = projects
        /\ ret'.op \in {"CreateProject", "CloneProject"} =>
              /\ ret'.events = <<>>
              /\ ret'.deliveries = <<>>
              /\ lastEvent' = lastEvent ]_vars

(* C22 witness: UpdateProject has returned the wrapped error of its         *)
(* override fetch; the store holds the refreshed project the call wrote,    *)
(* and the observers have handled no SyncEvent for it.                      *)
C22_Witness ==
    /\ ret.op = "UpdateProject"
    /\ ret.err = OverrideFetchError(ret.key)
    /\ ret.changed = "true"
    /\ ret.key \in DOMAIN projects
    /\ projects[ret.key].SourceProjectKey = "a"
    /\ projects[ret.key].AllFlagsState = FromAllFlags(SdkStates[ret.remote.st])
    /\ projects[ret.key].AllFlagsState # projects["a"].AllFlagsState
    /\ lastEvent[ret.key] = Nil

(* C23: the mapping GetFlagStateWithOverridesForProject returns has exactly *)
(* the flag keys of the project's synced AllFlagsState: an override, active *)
(* or not, for a flag key the synced state lacks adds no entry, and every   *)
(* synced flag has its entry.                                               *)
C23_LayeredKeysAreSyncedKeys ==
    (ret.op = "GetFlagState" /\ ret.err = NoError) =>
        DOMAIN ret.state = DOMAIN projects[ret.key].AllFlagsState

(* C23 witness: the store holds an active override for a flag the synced    *)
(* state lacks and an override for a synced flag; the mapping has the       *)
(* synced flag only.                                                        *)
C23_Witness ==
    /\ ret.op = "GetFlagState"
    /\ ret.err = NoError
    /\ \E f \in Flags \ DOMAIN projects[ret.key].AllFlagsState :
           \E o \in OverridesFor(ret.key, f) : o.Active
    /\ \E f \in DOMAIN projects[ret.key].AllFlagsState :
           \E o \in OverridesFor(ret.key, f) : ~o.Active
    /\ DOMAIN ret.state # Flags
    /\ DOMAIN ret.state # {}


====
